---------------------------- MODULE Spec2Model ----------------------------
(***************************************************************************)
(* A model of the odds engine of kicktipp-bot:                             *)
(*   - OddsApiClient (utils/odds_api.py): the file-backed odds cache and   *)
(*     the fixture matcher get_odds_for_match;                             *)
(*   - Game (models/game.py): the market aggregators and calculate_tip.    *)
(* Times are whole hours.  Prices are whole cents.                         *)
(***************************************************************************)
EXTENDS Integers, Sequences, FiniteSets, TLC

VARIABLES
    flag,        \* Config.ODDS_CACHE_ALWAYS_USE_FILE
    cache,       \* OddsApiClient.cache: None or Some(payload)
    cache_time,  \* OddsApiClient.cache_time: None or Some(hour)
    file,        \* the content of CACHE_FILE
    now,         \* datetime.now(), in hours
    pc,          \* "new" before OddsApiClient.__init__, "ready" after
    loaded,      \* the file as OddsApiClient.__init__ found it
    last,        \* the last call: its inputs, what it returned, what it did
    strategy,         \* Config.ODDS_STRATEGY
    used_odds_write,  \* Config.USED_ODDS_WRITE
    game,             \* the Game
    used_odds,        \* the content of used_odds.json
    tip,              \* the last calculate_tip call
    agg               \* the aggregates of the game's event

cvars == <<flag, cache, cache_time, file, now, pc, loaded, last>>
gvars == <<strategy, used_odds_write, game, used_odds, tip, agg>>
vars == <<flag, cache, cache_time, file, now, pc, loaded, last,
          strategy, used_odds_write, game, used_odds, tip, agg>>

(***************************************************************************)
(* Optional values (Python's None).                                        *)
(***************************************************************************)
None == [some |-> FALSE]
Some(x) == [some |-> TRUE, v |-> x]

(***************************************************************************)
(* Bounds of the model.                                                    *)
(***************************************************************************)
MaxTime == 7      \* the clock runs from hour 0 to this hour
MaxEvents == 2    \* the longest event list of a matcher snapshot
MaxBookmakers == 2   \* the most bookmakers of an event
MaxLog == 2       \* the most records of used_odds.json
MaxPrices == 4    \* the most bookmakers of an event of the h2h check

(***************************************************************************)
(* Program constants.                                                      *)
(***************************************************************************)
CACHE_TTL == 6          \* timedelta(hours=6)
MATCH_TOLERANCE == 6    \* 6*3600 seconds

(***************************************************************************)
(* Team names.  KICKTIPP_TO_API is the table of odds_api.py, cut to the    *)
(* teams the model uses; Lower is str.lower() on the names in use.         *)
(***************************************************************************)
Missing == "<missing>"   \* a key the record does not have

KICKTIPP_TO_API ==
    [k \in {"1899 Hoffenheim", "FC Augsburg", "Hamburger SV"} |->
        CASE k = "1899 Hoffenheim" -> "TSG Hoffenheim"
          [] k = "FC Augsburg" -> "Augsburg"
          [] k = "Hamburger SV" -> "Hamburger SV"]

Translate(name) ==
    IF name \in DOMAIN KICKTIPP_TO_API THEN KICKTIPP_TO_API[name] ELSE name

Lower(s) ==
    CASE s \in {"TSG Hoffenheim", "TSG HOFFENHEIM", "tsg hoffenheim"} -> "tsg hoffenheim"
      [] s \in {"Augsburg", "AUGSBURG", "augsburg"} -> "augsburg"
      [] s \in {"Hamburger SV", "hamburger sv"} -> "hamburger sv"
      [] s \in {"1899 Hoffenheim", "1899 hoffenheim"} -> "1899 hoffenheim"
      [] s \in {"FC Augsburg", "fc augsburg"} -> "fc augsburg"
      [] OTHER -> s

(***************************************************************************)
(* Datetimes.  A datetime is its wall-clock hour and, when it is aware,    *)
(* its UTC offset.  ParseIso is                                            *)
(*   datetime.fromisoformat(s.replace('Z', '+00:00'))                      *)
(* on the strings in use: it fails on a string that is no ISO time.        *)
(***************************************************************************)
Naive(h) == [wall |-> h, aware |-> FALSE, off |-> 0]
Aware(h, o) == [wall |-> h, aware |-> TRUE, off |-> o]

ParseIso(s) ==
    CASE s = "T06:00Z" -> Some(Aware(6, 0))
      [] s = "T07:00Z" -> Some(Aware(7, 0))
      [] s = "T12:00Z" -> Some(Aware(12, 0))
      [] s = "T17:00Z" -> Some(Aware(17, 0))
      [] s = "T18:00Z" -> Some(Aware(18, 0))
      [] s = "T14:00+02:00" -> Some(Aware(14, 2))
      [] s = "T12:00" -> Some(Naive(12))
      [] OTHER -> None

\* The instant of an aware datetime, in hours UTC.
Instant(dt) == dt.wall - dt.off

Abs(n) == IF n < 0 THEN 0 - n ELSE n

(***************************************************************************)
(* Events of the provider's payload, as far as the matcher reads them.     *)
(***************************************************************************)
Ev(h, a, t) == [home_team |-> h, away_team |-> a, commence_time |-> t]

EvMatch == Ev("TSG Hoffenheim", "Augsburg", "T12:00Z")
EvCase == Ev("TSG HOFFENHEIM", "augsburg", "T14:00+02:00")
EvLate == Ev("TSG Hoffenheim", "Augsburg", "T18:00Z")
EvEarly == Ev("TSG Hoffenheim", "Augsburg", "T07:00Z")
EvSwapped == Ev("Augsburg", "TSG Hoffenheim", "T12:00Z")
EvNoHome == Ev(Missing, "Augsburg", "T12:00Z")
EvNoAway == Ev("TSG Hoffenheim", Missing, "T12:00Z")
EvNoTime == Ev("TSG Hoffenheim", "Augsburg", Missing)
EvBadTime == Ev("TSG Hoffenheim", "Augsburg", "tbd")
EvNaiveTime == Ev("TSG Hoffenheim", "Augsburg", "T12:00")

EventPool ==
    {EvMatch, EvCase, EvLate, EvEarly, EvSwapped, EvNoHome, EvNoAway,
     EvNoTime, EvBadTime, EvNaiveTime}

\* Every event list of at most n events of the pool.
RECURSIVE SeqsUpTo(_, _)
SeqsUpTo(S, n) ==
    IF n = 0 THEN {<<>>}
    ELSE LET shorter == SeqsUpTo(S, n - 1)
         IN  shorter \cup {Append(s, e) : s \in shorter, e \in S}

\* The snapshots the matcher is checked on.
MatchPayloads == SeqsUpTo(EventPool, MaxEvents)

\* What the provider answers in the model's runs, and what a cache file holds.
ProviderPayloads == {<<>>, <<EvNoTime, EvCase>>}
FilePayloads == {<<EvLate>>}

(***************************************************************************)
(* The cache file.  kind: "absent" (no file), "garbage" (json.load fails,  *)
(* or the document is no object), "json" (an object).  Of an object: odds  *)
(* is its 'odds' value (None when the key is missing), tkind says whether  *)
(* its 'cache_time' is an ISO string ("iso", of hour t), is missing or is  *)
(* no ISO string ("bad").                                                  *)
(***************************************************************************)
FileAbsent == [kind |-> "absent", odds |-> None, tkind |-> "missing", t |-> 0]
FileGarbage == [kind |-> "garbage", odds |-> None, tkind |-> "missing", t |-> 0]
FileJson(o, tk, h) == [kind |-> "json", odds |-> o, tkind |-> tk, t |-> h]

InitFiles ==
    {FileAbsent, FileGarbage}
    \cup {FileJson(o, "iso", 0) : o \in {Some(p) : p \in FilePayloads} \cup {None}}
    \cup {FileJson(Some(p), tk, 0) : p \in FilePayloads, tk \in {"missing", "bad"}}

\* A file that is not {odds, cache_time: ISO string}.
Malformed(f) ==
    \/ f.kind = "garbage"
    \/ f.kind = "json" /\ f.tkind # "iso"

(***************************************************************************)
(* OddsApiClient._load_cache: the fields it leaves in the client.  The     *)
(* two assignments are in one try block: when the second raises, the       *)
(* first has been made.                                                    *)
(***************************************************************************)
_load_cache(f) ==
    CASE f.kind = "absent" -> [cache |-> None, cache_time |-> None]
      [] f.kind = "garbage" -> [cache |-> None, cache_time |-> None]
      [] OTHER ->
           [cache |-> f.odds,
            cache_time |-> IF f.tkind = "iso" THEN Some(f.t) ELSE None]

(***************************************************************************)
(* OddsApiClient._save_cache: the file it leaves.  save is how the write   *)
(* goes: "ok"; "fail_open" (makedirs or open raises: the file is as it     *)
(* was); "fail_write" (the file was opened for writing, hence truncated,   *)
(* and the dump raises).  The exception is swallowed.                      *)
(***************************************************************************)
SaveOutcomes == {"ok", "fail_open", "fail_write"}

_save_cache(f, c, ct, save) ==
    CASE save = "ok" ->
           IF ct.some THEN FileJson(c, "iso", ct.v) ELSE FileJson(c, "bad", 0)
      [] save = "fail_open" -> f
      [] OTHER -> FileGarbage

\* _is_cache_valid, were the window one hour short
_is_cache_valid_Short(c, ct, t) ==
    IF flag
    THEN c.some
    ELSE c.some /\ ct.some /\ (t - ct.v) < CACHE_TTL - 1

(***************************************************************************)
(* OddsApiClient._is_cache_valid, at hour t.                               *)
(***************************************************************************)
_is_cache_valid(c, ct, t) ==
    IF flag
    THEN c.some
    ELSE c.some /\ ct.some /\ (t - ct.v) < CACHE_TTL

(***************************************************************************)
(* OddsApiClient.fetch_odds.  outcome is what the provider does when it    *)
(* is asked: "ok" (a 2xx answer whose body parses to payload),             *)
(* "unreachable" (requests.get raises), "http_error" (raise_for_status     *)
(* raises), "bad_body" (response.json raises).  The result: the fields of  *)
(* the client and the file after the call, the value returned, the number  *)
(* of provider calls made, and whether an exception left the call.         *)
(***************************************************************************)
ProviderOutcomes == {"ok", "unreachable", "http_error", "bad_body"}

Fetched(c, ct, f, ret, net, outcome, save, raised) ==
    [cache |-> c, cache_time |-> ct, file |-> f, ret |-> ret, net |-> net,
     outcome |-> outcome, save |-> save, raised |-> raised]

\* except Exception, were it missing: the exception leaves fetch_odds
FetchErrorHandler_Raise(outcome) ==
    Fetched(cache, cache_time, file, None, 1, outcome, "none", TRUE)

\* except Exception: log, return self.cache
FetchErrorHandler(outcome) ==
    Fetched(cache, cache_time, file, cache, 1, outcome, "none", FALSE)

\* the try block, were self.cache_time not set in it
FetchSuccess_StaleTime(payload, save) ==
    Fetched(Some(payload), cache_time,
            _save_cache(file, Some(payload), cache_time, save),
            Some(payload), 1, "ok", save, FALSE)

\* the try block, the provider having answered with payload
FetchSuccess(payload, save) ==
    Fetched(Some(payload), Some(now),
            _save_cache(file, Some(payload), Some(now), save),
            Some(payload), 1, "ok", save, FALSE)

\* the override, were its early return missing
OverrideApplies_Never == FALSE

\* if Config.ODDS_CACHE_ALWAYS_USE_FILE: if self.cache is not None
OverrideApplies == flag /\ cache.some

fetch_odds(force_refresh, outcome, payload, save) ==
    IF OverrideApplies
    THEN Fetched(cache, cache_time, file, cache, 0, "none", "none", FALSE)
    ELSE IF ~force_refresh /\ _is_cache_valid(cache, cache_time, now)
    THEN Fetched(cache, cache_time, file, cache, 0, "none", "none", FALSE)
    ELSE IF outcome = "ok"
    THEN FetchSuccess(payload, save)
    ELSE FetchErrorHandler(outcome)

(***************************************************************************)
(* OddsApiClient.get_odds_for_match.  EventOutcome is one pass of the loop *)
(* body on one event: "match", "nomatch", or "exception" (a KeyError on a  *)
(* missing key, a ValueError on a string that is no ISO time, a TypeError  *)
(* on the difference of a naive and an aware datetime).  Python's `and`    *)
(* reads away_team only when the home names are equal, and commence_time   *)
(* only when both are.                                                     *)
(***************************************************************************)
\* match_time made aware: a naive time is taken as UTC.
MatchTimeAware(match_time) ==
    IF match_time.aware THEN Aware(Instant(match_time), 0)
    ELSE Aware(match_time.wall, 0)

\* the tolerance test, were it not strict
WithinTolerance_Inclusive(event_time, match_time_aware) ==
    Abs(Instant(event_time) - Instant(match_time_aware)) <= MATCH_TOLERANCE

WithinTolerance(event_time, match_time_aware) ==
    Abs(Instant(event_time) - Instant(match_time_aware)) < MATCH_TOLERANCE

EventOutcome(event, api_home, api_away, match_time) ==
    IF event.home_team = Missing THEN "exception"
    ELSE IF Lower(event.home_team) # Lower(api_home) THEN "nomatch"
    ELSE IF event.away_team = Missing THEN "exception"
    ELSE IF Lower(event.away_team) # Lower(api_away) THEN "nomatch"
    ELSE IF event.commence_time = Missing THEN "exception"
    ELSE LET event_time == ParseIso(event.commence_time)
         IN  IF ~event_time.some THEN "exception"
             ELSE IF ~event_time.v.aware THEN "exception"
             ELSE IF WithinTolerance(event_time.v, MatchTimeAware(match_time))
             THEN "match"
             ELSE "nomatch"

\* the loop body, were it not in a try block
MatchErrorHandler_Propagate == "propagate"

\* except Exception inside the loop: log a warning, go on with the next event
MatchErrorHandler == "continue"

\* The loop over odds_data from its i-th event on.
RECURSIVE ScanEvents(_, _, _, _, _)
ScanEvents(odds_data, i, api_home, api_away, match_time) ==
    IF i > Len(odds_data) THEN [event |-> None, raised |-> FALSE]
    ELSE LET o == EventOutcome(odds_data[i], api_home, api_away, match_time)
         IN  CASE o = "match" -> [event |-> Some(odds_data[i]), raised |-> FALSE]
               [] o = "exception" /\ MatchErrorHandler # "continue" ->
                    [event |-> None, raised |-> TRUE]
               [] OTHER ->
                    ScanEvents(odds_data, i + 1, api_home, api_away, match_time)

\* The part of get_odds_for_match after fetch_odds() returned odds_data.
MatchIn(odds_data, home_team, away_team, match_time) ==
    IF ~odds_data.some \/ odds_data.v = <<>>
    THEN [event |-> None, raised |-> FALSE]
    ELSE ScanEvents(odds_data.v, 1, Translate(home_team), Translate(away_team),
                    match_time)

(***************************************************************************)
(* The record of a call.                                                   *)
(***************************************************************************)
Call(op, force, fx, f, pre, preTime, m) ==
    [op |-> op, force |-> force, fixture |-> fx,
     net |-> f.net, outcome |-> f.outcome, save |-> f.save, ret |-> f.ret,
     payload |-> IF f.outcome = "ok" THEN f.ret ELSE None,
     raised |-> f.raised \/ m.raised, event |-> m.event,
     pre |-> pre, preTime |-> preTime]

NoFixture == [home_team |-> "", away_team |-> "", match_time |-> Naive(0)]
NoMatch == [event |-> None, raised |-> FALSE]
NoFetch == Fetched(None, None, FileAbsent, None, 0, "none", "none", FALSE)
Idle == Call("none", FALSE, NoFixture, NoFetch, None, None, NoMatch)

(***************************************************************************)
(* The fixtures the matcher is asked for.                                  *)
(***************************************************************************)
Fixtures ==
    [home_team : {"1899 Hoffenheim"}, away_team : {"FC Augsburg"},
     match_time : {Naive(12), Aware(14, 2), Naive(18)}]
    \cup
    [home_team : {"FC Augsburg"}, away_team : {"1899 Hoffenheim"},
     match_time : {Naive(12)}]
    \cup
    [home_team : {"tsg hoffenheim"}, away_team : {"AUGSBURG"},
     match_time : {Naive(12)}]

\* The fixtures asked for in the runs of the whole client.
SpecFixtures ==
    {fx \in Fixtures : fx.match_time = Naive(12) /\ fx.home_team # "tsg hoffenheim"}

(***************************************************************************)
(* What the provider and the file system do during one call: the provider  *)
(* answers with a payload, which is then saved, or it fails.               *)
(***************************************************************************)
Answer(o, p, s) == [outcome |-> o, payload |-> p, save |-> s]

Answers ==
    {Answer("ok", p, s) : p \in ProviderPayloads, s \in SaveOutcomes}
    \cup {Answer(o, <<>>, "none") : o \in ProviderOutcomes \ {"ok"}}

MatchAnswers ==
    {Answer("ok", p, "ok") : p \in ProviderPayloads}
    \cup {Answer("unreachable", <<>>, "none")}

(***************************************************************************)
(*                       Game: the market aggregators                      *)
(*                                                                         *)
(* An event is [bookmakers |-> <<bookmaker, ...>>], a bookmaker is         *)
(* [markets |-> <<market, ...>>], a market is [key, outcomes] and an       *)
(* outcome is [name, price, point, has], has being the keys the outcome    *)
(* dict holds.  Prices are cents and points are hundredths of a goal.  A   *)
(* Python dict is the sequence of its items in insertion order.            *)
(***************************************************************************)
Outcome(n, p, pt, has) == [name |-> n, price |-> p, point |-> pt, has |-> has]
H2HOutcome(n, p) == Outcome(n, p, 0, {"name", "price"})
LineOutcome(n, p, pt) == Outcome(n, p, pt, {"name", "price", "point"})
Market(k, outs) == [key |-> k, outcomes |-> outs]
Bookmaker(ms) == [markets |-> ms]
Event(bs) == [bookmakers |-> bs]

Has(o, k) == k \in o.has

\* What a call gives: a value, or an exception that leaves it.
Return(x) == [raised |-> FALSE, v |-> x]
Raise(e) == [raised |-> TRUE, error |-> e]

\* The concatenation of a sequence of sequences.
RECURSIVE Concat(_)
Concat(ss) == IF ss = <<>> THEN <<>> ELSE Head(ss) \o Concat(Tail(ss))

\* The elements of s, each once, in the order of their first appearance.
FirstAppearance(s) ==
    LET first == SelectSeq([i \in 1..Len(s) |-> i],
                           LAMBDA i : \A j \in 1..(i - 1) : s[j] # s[i])
    IN  [k \in 1..Len(first) |-> s[first[k]]]

\* The places of s, in order, at which Test holds.
Places(s, Test(_)) == SelectSeq([i \in 1..Len(s) |-> i], LAMBDA i : Test(s[i]))

\* sorted(s), of integers.
RECURSIVE Insert(_, _)
Insert(sorted, x) ==
    IF sorted = <<>> THEN <<x>>
    ELSE IF x < Head(sorted) THEN <<x>> \o sorted
    ELSE <<Head(sorted)>> \o Insert(Tail(sorted), x)

RECURSIVE Sorted(_)
Sorted(s) ==
    IF s = <<>> THEN <<>>
    ELSE Insert(Sorted(SubSeq(s, 1, Len(s) - 1)), s[Len(s)])

RECURSIVE Sum(_)
Sum(s) == IF s = <<>> THEN 0 ELSE Head(s) + Sum(Tail(s))

\* The pairs of prices a <= b between 1.70 and 2.10, multiples of 5 cents
\* with a mean of a half cent, by what round((a + b) / 2, 2) does on the
\* floats: up when the float of the mean lies above the half cent, down
\* when it lies below.
MeanRoundsUp ==
    {<<170, 175>>, <<170, 205>>, <<175, 200>>, <<175, 210>>, <<180, 185>>,
     <<180, 195>>, <<185, 190>>, <<185, 200>>, <<185, 210>>, <<195, 200>>,
     <<205, 210>>}
MeanRoundsDown ==
    {<<170, 185>>, <<170, 195>>, <<175, 180>>, <<175, 190>>, <<180, 205>>,
     <<190, 195>>, <<190, 205>>, <<195, 210>>, <<200, 205>>}

\* round((a + b) / 2, 2) of two prices a <= b in cents; a mean of a half
\* cent outside the two tables has no value here.
RoundedMean(a, b) ==
    IF (a + b) % 2 = 0 THEN (a + b) \div 2
    ELSE IF <<a, b>> \in MeanRoundsUp THEN (a + b + 1) \div 2
    ELSE IF <<a, b>> \in MeanRoundsDown THEN (a + b - 1) \div 2
    ELSE CHOOSE c \in {} : TRUE

\* round(statistics.median(s), 2) of a non-empty list of cents.
RoundedMedian(s) ==
    LET t == Sorted(s)
        n == Len(t)
    IN  IF n % 2 = 1 THEN t[(n + 1) \div 2]
        ELSE RoundedMean(t[n \div 2], t[n \div 2 + 1])

\* api_to_kicktipp.get(name, name): the table read backwards.
api_to_kicktipp(name) ==
    IF \E k \in DOMAIN KICKTIPP_TO_API : KICKTIPP_TO_API[k] = name
    THEN CHOOSE k \in DOMAIN KICKTIPP_TO_API : KICKTIPP_TO_API[k] = name
    ELSE name

\* The outcomes of a bookmaker's markets of one key, in order.
BookmakerOutcomes(b, key) ==
    Concat([i \in 1..Len(b.markets) |->
              IF b.markets[i].key = key THEN b.markets[i].outcomes ELSE <<>>])

\* The outcomes of all bookmakers' markets of one key, in order.
MarketOutcomes(event, key) ==
    Concat([i \in 1..Len(event.bookmakers) |->
              BookmakerOutcomes(event.bookmakers[i], key)])

\* the trimming, were only the least price dropped
Winsorized_MinOnly(prices) ==
    IF Len(prices) > 2 THEN SubSeq(Sorted(prices), 2, Len(prices))
    ELSE prices

\* sorted(prices)[1:-1], when there are more than two prices
Winsorized(prices) ==
    IF Len(prices) > 2 THEN SubSeq(Sorted(prices), 2, Len(prices) - 1)
    ELSE prices

(***************************************************************************)
(* Game._aggregate_market_quotes: the dict name -> price, a sequence of    *)
(* [name, price] in insertion order.  outcome["name"] and outcome["price"] *)
(* raise KeyError on an outcome without the key.                           *)
(***************************************************************************)
_aggregate_market_quotes(event, market_key) ==
    LET outs == MarketOutcomes(event, market_key)
        named == [i \in 1..Len(outs) |-> api_to_kicktipp(outs[i].name)]
        names == FirstAppearance(named)
        pricesOf(n) ==
            LET idx == SelectSeq([i \in 1..Len(outs) |-> i], LAMBDA i : named[i] = n)
            IN  [j \in 1..Len(idx) |-> outs[idx[j]].price]
    IN  IF \E i \in 1..Len(outs) : ~Has(outs[i], "name") \/ ~Has(outs[i], "price")
        THEN Raise("KeyError")
        ELSE Return([i \in 1..Len(names) |->
                       [name |-> names[i],
                        price |-> RoundedMedian(Winsorized(pricesOf(names[i])))]])

(***************************************************************************)
(* The vote on a point, in the spread and in the totals.  An entry is      *)
(* [point, price, other]: other is None or Some(price).                    *)
(***************************************************************************)
Entry(pt, p, o) == [point |-> pt, price |-> p, other |-> o]

\* Counter(points): its keys in insertion order, and its counts.
CounterKeys(entries) ==
    FirstAppearance([i \in 1..Len(entries) |-> entries[i].point])

Count(entries, point) ==
    Cardinality({i \in 1..Len(entries) : entries[i].point = point})

\* max(point_counter.values())
MaxCount(entries) ==
    CHOOSE c \in {Count(entries, entries[i].point) : i \in 1..Len(entries)} :
        \A i \in 1..Len(entries) : Count(entries, entries[i].point) <= c

\* [point for point, count in point_counter.items() if count == max_count]
Candidates(entries) ==
    SelectSeq(CounterKeys(entries),
              LAMBDA pt : Count(entries, pt) = MaxCount(entries))

\* avg_diff[point], as the sum and the number of the gaps: no gap is inf.
AvgDiff(entries, point) ==
    LET idx == Places(entries, LAMBDA e : e.point = point /\ e.other.some)
    IN  [sum |-> Sum([j \in 1..Len(idx) |->
                        Abs(entries[idx[j]].price - entries[idx[j]].other.v)]),
         n |-> Len(idx)]

\* a < b, of two averages
AvgLess(a, b) ==
    IF a.n = 0 THEN FALSE
    ELSE IF b.n = 0 THEN TRUE
    ELSE a.sum * b.n < b.sum * a.n

\* min(avg_diff, key=avg_diff.get): the first key of the least value.
RECURSIVE MinByAvgDiff(_, _, _, _)
MinByAvgDiff(entries, cands, i, best) ==
    IF i > Len(cands) THEN best
    ELSE IF AvgLess(AvgDiff(entries, cands[i]), AvgDiff(entries, best))
    THEN MinByAvgDiff(entries, cands, i + 1, cands[i])
    ELSE MinByAvgDiff(entries, cands, i + 1, best)

PricesAt(entries, point) ==
    LET idx == Places(entries, LAMBDA e : e.point = point)
    IN  [j \in 1..Len(idx) |-> entries[idx[j]].price]

OthersAt(entries, point) ==
    LET idx == Places(entries, LAMBDA e : e.point = point)
    IN  [j \in 1..Len(idx) |-> entries[idx[j]].other.v]

(***************************************************************************)
(* Game._aggregate_spread.                                                 *)
(***************************************************************************)
\* norm(s): NFC, strip, casefold
Norm(s) == Lower(s)

\* {api_to_kicktipp(o.name): o.price for o in outs}: a later item of a name
\* replaces the price and keeps the place.
DictOf(outs) ==
    LET named == [i \in 1..Len(outs) |-> api_to_kicktipp(outs[i].name)]
        names == FirstAppearance(named)
        lastOf(n) == CHOOSE i \in 1..Len(outs) :
                        /\ named[i] = n
                        /\ \A j \in (i + 1)..Len(outs) : named[j] # n
    IN  [k \in 1..Len(names) |->
           [name |-> names[k], price |-> outs[lastOf(names[k])].price]]

\* The outcomes of the last market of the key that the bookmaker lists.
LastMarketOutcomes(b, key) ==
    LET idx == {i \in 1..Len(b.markets) : b.markets[i].key = key}
    IN  IF idx = {} THEN <<>>
        ELSE b.markets[CHOOSE i \in idx : \A j \in idx : j <= i].outcomes

\* sorted(items, key=price): stable.
RECURSIVE InsertByPrice(_, _)
InsertByPrice(sorted, x) ==
    IF sorted = <<>> THEN <<x>>
    ELSE IF x.price < Head(sorted).price THEN <<x>> \o sorted
    ELSE <<Head(sorted)>> \o InsertByPrice(Tail(sorted), x)

RECURSIVE SortedByPrice(_)
SortedByPrice(s) ==
    IF s = <<>> THEN <<>>
    ELSE InsertByPrice(SortedByPrice(SubSeq(s, 1, Len(s) - 1)), s[Len(s)])

\* The bookmaker's favourite: of its two teams, the one of the lower
\* head-to-head price (the first listed, when the prices are equal).
FavName(b) ==
    LET h2h == DictOf(LastMarketOutcomes(b, "h2h"))
        sorted_teams == SortedByPrice(SelectSeq(h2h, LAMBDA x : x.name # "Draw"))
    IN  IF Len(h2h) >= 2 /\ Len(sorted_teams) = 2
        THEN Some(sorted_teams[1].name)
        ELSE None

\* fav_names: the favourite's name and its variants in the table.
FavNames(fav_name) ==
    IF ~fav_name.some THEN {}
    ELSE {fav_name.v}
         \cup {Translate(fav_name.v)}
         \cup {k \in DOMAIN KICKTIPP_TO_API : KICKTIPP_TO_API[k] = fav_name.v}

\* The price of the first outcome of the market that has o's point and
\* another name than o.
UnderdogPrice(all_outcomes, o) ==
    LET idx == Places(all_outcomes,
                      LAMBDA o2 : o2.point = o.point /\ Norm(o2.name) # Norm(o.name))
    IN  IF idx = <<>> THEN None ELSE Some(all_outcomes[idx[1]].price)

\* The (point, price, underdog_price) that one bookmaker adds to spreads.
BookmakerSpreads(b) ==
    LET fav_names == FavNames(FavName(b))
        ofMarket(m) ==
            LET idx == Places(m.outcomes,
                              LAMBDA o : \E v \in fav_names : Norm(o.name) = Norm(v))
            IN  [j \in 1..Len(idx) |->
                   Entry(m.outcomes[idx[j]].point, m.outcomes[idx[j]].price,
                         UnderdogPrice(m.outcomes, m.outcomes[idx[j]]))]
    IN  Concat([i \in 1..Len(b.markets) |->
                  IF b.markets[i].key = "spreads" THEN ofMarket(b.markets[i])
                  ELSE <<>>])

\* The spreads list of all bookmakers.
Spreads(event) ==
    Concat([i \in 1..Len(event.bookmakers) |-> BookmakerSpreads(event.bookmakers[i])])

\* An outcome read with o['name'], o['price'] (h2h) or with o['name'],
\* o['point'], o['price'] (spreads, in the table for the log) lacks a key.
SpreadKeyError(event) ==
    LET h == MarketOutcomes(event, "h2h")
        s == MarketOutcomes(event, "spreads")
    IN  \/ \E i \in 1..Len(h) : ~Has(h[i], "name") \/ ~Has(h[i], "price")
        \/ \E i \in 1..Len(s) :
              ~Has(s[i], "name") \/ ~Has(s[i], "point") \/ ~Has(s[i], "price")

\* best_point of the spread: the only candidate, or the first candidate of
\* the least average gap.
SpreadBestPoint(spreads) ==
    LET candidates == Candidates(spreads)
    IN  IF Len(candidates) = 1 THEN candidates[1]
        ELSE MinByAvgDiff(spreads, candidates, 2, candidates[1])

_aggregate_spread(event) ==
    IF SpreadKeyError(event) THEN Raise("KeyError")
    ELSE LET spreads == Spreads(event)
         IN  IF spreads = <<>> THEN Return(None)
             ELSE LET best_point == SpreadBestPoint(spreads)
                  IN  Return(Some(
                        [point |-> best_point,
                         price |-> RoundedMedian(PricesAt(spreads, best_point))]))

(***************************************************************************)
(* Game._aggregate_totals.                                                 *)
(***************************************************************************)
\* The last outcome of the name in a market, if there is one.
LastNamed(m, n) ==
    LET idx == Places(m.outcomes, LAMBDA o : o.name = n)
    IN  IF idx = <<>> THEN None ELSE Some(m.outcomes[idx[Len(idx)]])

\* The (point, over, under) that one bookmaker adds to totals.
BookmakerTotals(b) ==
    LET ofMarket(m) ==
            LET over == LastNamed(m, "Over")
                under == LastNamed(m, "Under")
            IN  IF over.some /\ under.some
                THEN <<Entry(over.v.point, over.v.price, Some(under.v.price))>>
                ELSE <<>>
    IN  Concat([i \in 1..Len(b.markets) |->
                  IF b.markets[i].key = "totals" THEN ofMarket(b.markets[i])
                  ELSE <<>>])

Totals(event) ==
    Concat([i \in 1..Len(event.bookmakers) |-> BookmakerTotals(event.bookmakers[i])])

\* o["name"], and o["price"], o["point"] of an Over, o["price"] of an Under,
\* on an outcome that lacks the key.
TotalsKeyError(event) ==
    LET t == MarketOutcomes(event, "totals")
    IN  \E i \in 1..Len(t) :
           \/ ~Has(t[i], "name")
           \/ t[i].name = "Over" /\ (~Has(t[i], "price") \/ ~Has(t[i], "point"))
           \/ t[i].name = "Under" /\ ~Has(t[i], "price")

\* best_point of the totals: the first candidate of the least average gap.
TotalsBestPoint(totals) ==
    LET candidates == Candidates(totals)
    IN  MinByAvgDiff(totals, candidates, 2, candidates[1])

_aggregate_totals(event) ==
    IF TotalsKeyError(event) THEN Raise("KeyError")
    ELSE LET totals == Totals(event)
         IN  IF totals = <<>> THEN Return(None)
             ELSE LET best_point == TotalsBestPoint(totals)
                  IN  Return(Some(
                        [point |-> best_point,
                         price |-> RoundedMedian(PricesAt(totals, best_point)),
                         under |-> RoundedMedian(OthersAt(totals, best_point))]))

(***************************************************************************)
(*                          Game.calculate_tip                             *)
(*                                                                         *)
(* A game is [home_team, away_team, quotes, game_time, odds_event,         *)
(* odds_api_client]: quotes is the list given to Game.__init__, in cents;  *)
(* game_time is "datetime" or "None"; odds_event is None or Some(event);   *)
(* odds_api_client says whether a client was given.                        *)
(***************************************************************************)
\* round(n / d), n >= 0 and d > 0: Python rounds a half to the even integer.
RoundHalfEven(n, d) ==
    LET q == n \div d
        r == n % d
    IN  IF 2 * r < d THEN q
        ELSE IF 2 * r > d THEN q + 1
        ELSE IF q % 2 = 0 THEN q ELSE q + 1

\* math.ceil and math.floor of a number of hundredths
Ceil100(x) == 0 - ((0 - x) \div 100)
Floor100(x) == x \div 100

Max(a, b) == IF a >= b THEN a ELSE b

\* The quotes that the classic rule is checked on: the tables below say, for
\* every two of them, on which side of the decimal difference the float
\* difference home_quote - away_quote lies.
FloatQuotes ==
    {100, 101, 105, 110, 125, 150, 176, 189, 200, 201, 203, 204, 205, 214, 250, 260, 300, 301, 403, 600, 800, 804, 805, 1200}

\* The pairs (lower, higher) of quotes whose float difference is greater
\* than their decimal difference, and those where it is less.  Only the
\* differences 0.25, 2.00, 6.00 and 7.00 are listed: at every other
\* difference of two quotes of two decimals the comparisons and the
\* rounding of the rule come out as on the decimal difference.
DifferenceAbove == {<<105, 805>>, <<189, 214>>, <<203, 403>>, <<205, 805>>}
DifferenceBelow == {<<101, 301>>, <<176, 201>>, <<204, 804>>}

\* home_quote - away_quote: the decimal difference in cents, and the side of
\* it on which the float's magnitude lies (1 above, -1 below, 0 equal).
FloatDifference(hq, aq) ==
    LET lo == IF hq <= aq THEN hq ELSE aq
        hi == IF hq <= aq THEN aq ELSE hq
    IN  [cents |-> hq - aq,
         off |-> IF <<lo, hi>> \in DifferenceAbove THEN 1
                 ELSE IF <<lo, hi>> \in DifferenceBelow THEN 0 - 1
                 ELSE IF hi - lo \in {25, 200, 600, 700} /\ ~({lo, hi} \subseteq FloatQuotes)
                      THEN CHOOSE c \in {} : TRUE
                      ELSE 0]

\* abs(quote_difference) < limit and abs(quote_difference) > limit
AbsBelow(d, limit) == Abs(d.cents) < limit \/ (Abs(d.cents) = limit /\ d.off < 0)
AbsAbove(d, limit) == Abs(d.cents) > limit \/ (Abs(d.cents) = limit /\ d.off > 0)

\* round(x) of a float x that lies at n / dn, or next to it on the side off
RoundFloat(n, dn, off) ==
    IF 2 * (n % dn) = dn /\ off # 0
    THEN IF off > 0 THEN n \div dn + 1 ELSE n \div dn
    ELSE RoundHalfEven(n, dn)

\* round(abs(quote_difference) * coefficient), the coefficient 0.3 or 0.75
ScaledDifference(d) ==
    IF AbsAbove(d, 700) THEN RoundHalfEven(3 * Abs(d.cents), 1000)
    ELSE RoundFloat(3 * Abs(d.cents), 400, d.off)

\* the record, were the goals of the two sides stored the other way round
Decision_Swapped(g, strat, home_goals, away_goals, h2h, spread, totals) ==
    [home_team |-> g.home_team, away_team |-> g.away_team,
     strategy |-> strat, tip |-> <<away_goals, home_goals>>,
     quotes |-> g.quotes,
     used_h2h |-> h2h, used_spread |-> spread, used_totals |-> totals]

\* The record that _persist_used_odds is called with.
Decision(g, strat, home_goals, away_goals, h2h, spread, totals) ==
    [home_team |-> g.home_team, away_team |-> g.away_team,
     strategy |-> strat, tip |-> <<home_goals, away_goals>>,
     quotes |-> g.quotes,
     used_h2h |-> h2h, used_spread |-> spread, used_totals |-> totals]

\* What calculate_tip comes to: the exception that leaves it or the score
\* it returns, the decision it hands to _persist_used_odds (None when it
\* does not call it), and the values it went through.
NoTip ==
    [raised |-> FALSE, error |-> "", path |-> "", score |-> <<0, 0>>,
     decision |-> None, tendenz |-> "", spread |-> 0, total_goals |-> 0,
     h2h_quotes |-> <<>>, spread_info |-> None, totals_info |-> None]

TipRaises(path, e) == [NoTip EXCEPT !.raised = TRUE, !.error = e, !.path = path]

(***************************************************************************)
(* The classic branch (game.py:73-94).  home_quote and away_quote are the  *)
(* arguments: None, or Some(cents).  self.quotes[0] and self.quotes[2]     *)
(* raise IndexError on a list that is too short.                           *)
(***************************************************************************)
ClassicScore(quote_difference, random_goal) ==
    IF AbsBelow(quote_difference, 25)
    THEN <<random_goal, random_goal>>
    ELSE IF quote_difference.cents < 0
    THEN <<Max(0, ScaledDifference(quote_difference)) + random_goal, random_goal>>
    ELSE <<random_goal, Max(0, ScaledDifference(quote_difference)) + random_goal>>

ClassicTip(g, home_quote, away_quote, random_goal) ==
    IF ~home_quote.some /\ Len(g.quotes) < 1 THEN TipRaises("classic", "IndexError")
    ELSE IF ~away_quote.some /\ Len(g.quotes) < 3 THEN TipRaises("classic", "IndexError")
    ELSE LET hq == IF home_quote.some THEN home_quote.v ELSE g.quotes[1]
             aq == IF away_quote.some THEN away_quote.v ELSE g.quotes[3]
             quote_difference == FloatDifference(hq, aq)
             score == ClassicScore(quote_difference, random_goal)
         IN  [NoTip EXCEPT
                !.path = "classic",
                !.score = score,
                !.decision =
                    IF AbsBelow(quote_difference, 25) THEN None
                    ELSE Some(Decision(g, "classic", score[1], score[2],
                                       None, None, None))]

(***************************************************************************)
(* The smart branch (game.py:96-331).                                      *)
(***************************************************************************)
\* The tables for the log read every outcome of the three markets with
\* o['name'], o['price'] and, but for the h2h and the Under, o['point'].
TablesKeyError(event) ==
    SpreadKeyError(event) \/ TotalsKeyError(event)

\* min(h2h_quotes.items(), key=lambda x: x[1])[0]: the first name of the
\* least price.
RECURSIVE MinByPrice(_, _, _)
MinByPrice(items, i, best) ==
    IF i > Len(items) THEN best
    ELSE IF items[i].price < best.price THEN MinByPrice(items, i + 1, items[i])
    ELSE MinByPrice(items, i + 1, best)

Tendenz(h2h_quotes) == MinByPrice(h2h_quotes, 2, h2h_quotes[1]).name

\* h2h_quotes.get(k)
DictGet(items, k) ==
    LET idx == Places(items, LAMBDA x : x.name = k)
    IN  IF idx = <<>> THEN None ELSE Some(items[idx[1]].price)

\* fav_spreads: the points of the spreads outcomes named as the favourite
\* of the aggregated h2h quotes, or as its name at the provider.
FavSpreads(event, h2h_quotes) ==
    LET fav_name == Tendenz(h2h_quotes)
        api_fav_names ==
            {fav_name} \cup (IF fav_name \in DOMAIN KICKTIPP_TO_API
                             THEN {KICKTIPP_TO_API[fav_name]} ELSE {})
        outs == MarketOutcomes(event, "spreads")
        idx == Places(outs, LAMBDA o : o.name \in api_fav_names /\ Has(o, "point"))
    IN  [j \in 1..Len(idx) |-> outs[idx[j]].point]

\* The goal difference taken from the spread (game.py:237-281).
ResolvedSpread(event, h2h_quotes, spread_info) ==
    IF ~spread_info.some THEN 1
    ELSE LET most_common_spread == spread_info.v.point
             fav_spreads == FavSpreads(event, h2h_quotes)
             abs_common == Abs(most_common_spread)
             sign == IF most_common_spread >= 0 THEN 1 ELSE 0 - 1
         IN  IF fav_spreads # <<>>
             THEN IF abs_common % 100 = 0
                  THEN IF Abs(Sum(fav_spreads)) > abs_common * Len(fav_spreads)
                       THEN sign * (abs_common \div 100 + 1)
                       ELSE sign * (abs_common \div 100)
                  ELSE sign * Ceil100(abs_common)
             ELSE IF most_common_spread # 0
                  THEN RoundHalfEven(abs_common, 100)
                  ELSE 1

\* total_goals after the rounding by the over and under quotes.
RoundedTotal(totals_info) ==
    IF ~totals_info.some THEN 2
    ELSE IF totals_info.v.price < totals_info.v.under
    THEN Ceil100(totals_info.v.point)
    ELSE Floor100(totals_info.v.point)

\* total_goals, were the special case missing
NudgedTotal_Skipped(totals_info, spread, total_goals) == total_goals

\* total_goals after the special case spread == 0, total_goals odd.
NudgedTotal(totals_info, spread, total_goals) ==
    IF spread = 0 /\ total_goals % 2 = 1 /\ totals_info.some
    THEN IF totals_info.v.point > 100 * total_goals
         THEN Ceil100(totals_info.v.point)
         ELSE Floor100(totals_info.v.point)
    ELSE total_goals

\* The goals of the two sides (game.py:303-318).
Distribute(g, tendenz, spread, total_goals) ==
    LET base == (total_goals - spread) \div 2
        more == IF base + spread + base < total_goals THEN 1 ELSE 0
        pair == IF tendenz = g.home_team THEN <<base + spread + more, base>>
                ELSE IF tendenz = g.away_team THEN <<base, base + spread + more>>
                ELSE <<total_goals \div 2, total_goals \div 2>>
    IN  <<Max(0, pair[1]), Max(0, pair[2])>>

\* used_h2h: the aggregated prices of the home team, the draw and the away
\* team, None for a name that has none.
UsedH2H(g, h2h_quotes) ==
    [k \in {g.home_team, "Draw", g.away_team} |-> DictGet(h2h_quotes, k)]

\* The return of the smart branch, from the values it went through.
SmartResult(g, h2h_quotes, spread_info, totals_info, tendenz, spread, total_goals, score) ==
    [NoTip EXCEPT
       !.path = "smart",
       !.score = score,
       !.tendenz = tendenz,
       !.spread = spread,
       !.total_goals = total_goals,
       !.h2h_quotes = h2h_quotes,
       !.spread_info = spread_info,
       !.totals_info = totals_info,
       !.decision =
           Some(Decision(g, "smart", score[1], score[2],
                  Some(UsedH2H(g, h2h_quotes)),
                  IF spread_info.some THEN Some(spread_info.v.price) ELSE None,
                  IF totals_info.some THEN Some(totals_info.v.price) ELSE None))]

\* game.py:292-318: the special case of the total, then the goals.
SmartGoals(g, h2h_quotes, spread_info, totals_info, tendenz, spread, total_goals) ==
    SmartResult(g, h2h_quotes, spread_info, totals_info, tendenz, spread,
                total_goals, Distribute(g, tendenz, spread, total_goals))

\* game.py:211-290: min() of the empty h2h_quotes raises ValueError.
SmartFrom(g, event, h2h_quotes, spread_info, totals_info) ==
    IF h2h_quotes = <<>> THEN TipRaises("smart", "ValueError")
    ELSE SmartGoals(g, h2h_quotes, spread_info, totals_info,
                    Tendenz(h2h_quotes),
                    ResolvedSpread(event, h2h_quotes, spread_info),
                    NudgedTotal(totals_info,
                                ResolvedSpread(event, h2h_quotes, spread_info),
                                RoundedTotal(totals_info)))

\* game.py:104-208: the tables for the log, then the three aggregators,
\* which read no key that the tables have not read.
SmartTip(g) ==
    IF TablesKeyError(g.odds_event.v) THEN TipRaises("smart", "KeyError")
    ELSE SmartFrom(g, g.odds_event.v,
                   _aggregate_market_quotes(g.odds_event.v, "h2h").v,
                   _aggregate_spread(g.odds_event.v).v,
                   _aggregate_totals(g.odds_event.v).v)

\* if Config.ODDS_STRATEGY == "classic" or not self.odds_event
\*    or not self.odds_api_client
TakesClassic(strat, g) ==
    \/ strat = "classic"
    \/ ~g.odds_event.some
    \/ ~g.odds_api_client

\* calculate_tip up to its call of _persist_used_odds.
calculate_tip(strat, g, home_quote, away_quote, random_goal) ==
    IF TakesClassic(strat, g)
    THEN ClassicTip(g, home_quote, away_quote, random_goal)
    ELSE SmartTip(g)

(***************************************************************************)
(* Game._persist_used_odds.  The file used_odds.json is [kind, records]:   *)
(* "absent", "garbage" (json.load fails), "notlist" (a document that is no *)
(* list) or "list" (of records).  write is how the file system behaves:    *)
(* "ok"; "fail_read" (opening the existing file raises); "fail_open"       *)
(* (opening it for writing raises); "fail_write" (the dump raises, the     *)
(* file being truncated).  self.game_time.isoformat() is outside the try.  *)
(***************************************************************************)
LogAbsent == [kind |-> "absent", records |-> <<>>]
LogGarbage == [kind |-> "garbage", records |-> <<>>]
LogNotList == [kind |-> "notlist", records |-> <<>>]
LogList(rs) == [kind |-> "list", records |-> rs]

WriteOutcomes == {"ok", "fail_read", "fail_open", "fail_write"}

(***************************************************************************)
(* json.dump and json.load.  A float of cents is written as its decimal:   *)
(* the sign, the digits before and the two digits after the point; an int  *)
(* as its sign and digits; None as null; a tuple as an array.              *)
(***************************************************************************)
JsonFloat(c) == [neg |-> c < 0, whole |-> Abs(c) \div 100, frac |-> Abs(c) % 100]
JsonInt(n) == [neg |-> n < 0, digits |-> Abs(n)]
JsonNull == [null |-> TRUE]
JsonOptFloat(o) == IF o.some THEN [null |-> FALSE, value |-> JsonFloat(o.v)] ELSE JsonNull

FloatOf(j) == IF j.neg THEN 0 - (j.whole * 100 + j.frac) ELSE j.whole * 100 + j.frac
IntOf(j) == IF j.neg THEN 0 - j.digits ELSE j.digits
OptFloatOf(j) == IF j.null THEN None ELSE Some(FloatOf(j.value))

\* json.dump of the dict data of _persist_used_odds (but for "datetime",
\* the time of the write).
json_dump(data) ==
    [game_time |-> data.game_time,
     home_team |-> data.home_team,
     away_team |-> data.away_team,
     strategy |-> data.strategy,
     tip |-> <<JsonInt(data.tip[1]), JsonInt(data.tip[2])>>,
     quotes |-> [i \in 1..Len(data.quotes) |-> JsonFloat(data.quotes[i])],
     used_h2h |-> IF data.used_h2h.some
                  THEN [null |-> FALSE,
                        value |-> [k \in DOMAIN data.used_h2h.v |->
                                     JsonOptFloat(data.used_h2h.v[k])]]
                  ELSE JsonNull,
     used_spread |-> JsonOptFloat(data.used_spread),
     used_totals |-> JsonOptFloat(data.used_totals)]

\* json.load of a record of the log.
json_load(j) ==
    [game_time |-> j.game_time,
     home_team |-> j.home_team,
     away_team |-> j.away_team,
     strategy |-> j.strategy,
     tip |-> <<IntOf(j.tip[1]), IntOf(j.tip[2])>>,
     quotes |-> [i \in 1..Len(j.quotes) |-> FloatOf(j.quotes[i])],
     used_h2h |-> IF j.used_h2h.null THEN None
                  ELSE Some([k \in DOMAIN j.used_h2h.value |->
                               OptFloatOf(j.used_h2h.value[k])]),
     used_spread |-> OptFloatOf(j.used_spread),
     used_totals |-> OptFloatOf(j.used_totals)]

\* What the code does on an exception of the file system inside the try
\* of _persist_used_odds: it passes.
PersistErrorHandler_Propagate == "raise"
PersistErrorHandler == "pass"

_persist_used_odds(f, g, decision, write) ==
    IF ~used_odds_write THEN [raised |-> FALSE, file |-> f]
    ELSE IF g.game_time # "datetime" THEN [raised |-> TRUE, file |-> f]
    ELSE LET arr == IF f.kind = "list"
                    THEN [i \in 1..Len(f.records) |-> json_load(f.records[i])]
                    ELSE <<>>
             data == [k \in DOMAIN decision \cup {"game_time"} |->
                        IF k = "game_time" THEN "isoformat" ELSE decision[k]]
             all == Append(arr, data)
         IN  CASE write = "fail_read" /\ f.kind # "absent" ->
                    [raised |-> PersistErrorHandler # "pass", file |-> f]
               [] write = "fail_open" ->
                    [raised |-> PersistErrorHandler # "pass", file |-> f]
               [] write = "fail_write" ->
                    [raised |-> PersistErrorHandler # "pass", file |-> LogGarbage]
               [] OTHER ->
                    [raised |-> FALSE,
                     file |-> LogList([i \in 1..Len(all) |-> json_dump(all[i])])]

\* A record written by an earlier run, and the logs that hold it: the array
\* of it, and that array cut short in the middle (json.load fails on it).
PriorRecord ==
    json_dump([game_time |-> "isoformat", home_team |-> "1899 Hoffenheim",
               away_team |-> "FC Augsburg", strategy |-> "classic",
               tip |-> <<3, 0>>, quotes |-> <<150, 400, 600>>,
               used_h2h |-> None, used_spread |-> None, used_totals |-> None])
LogTruncated == [kind |-> "garbage", records |-> <<PriorRecord>>]

InitLogs ==
    {LogAbsent, LogGarbage, LogNotList, LogList(<<>>), LogList(<<PriorRecord>>),
     LogTruncated}

(***************************************************************************)
(* The bookmakers and games of the model.                                  *)
(***************************************************************************)
HomeApi == "TSG Hoffenheim"
AwayApi == "Augsburg"

H2H(h, d, a) ==
    Market("h2h", <<H2HOutcome(HomeApi, h), H2HOutcome("Draw", d), H2HOutcome(AwayApi, a)>>)
SpreadsMarket(hp, hpt, ap, apt) ==
    Market("spreads", <<LineOutcome(HomeApi, hp, hpt), LineOutcome(AwayApi, ap, apt)>>)
TotalsMarket(pt, o, u) ==
    Market("totals", <<LineOutcome("Over", o, pt), LineOutcome("Under", u, pt)>>)

BkHome1 == Bookmaker(<<H2H(140, 420, 700), SpreadsMarket(190, -100, 190, 100),
                       TotalsMarket(250, 180, 200)>>)
BkHome2 == Bookmaker(<<H2H(150, 400, 650), SpreadsMarket(200, -200, 180, 200),
                       TotalsMarket(350, 180, 200)>>)
BkAway == Bookmaker(<<H2H(600, 400, 150), SpreadsMarket(185, 100, 195, -100),
                      TotalsMarket(250, 200, 180)>>)
BkEven == Bookmaker(<<H2H(250, 300, 250), SpreadsMarket(200, 0, 180, 0),
                      TotalsMarket(300, 190, 190)>>)
BkH2HOnly == Bookmaker(<<H2H(140, 240, 700)>>)
BkNoH2H == Bookmaker(<<SpreadsMarket(190, -100, 190, 100), TotalsMarket(250, 180, 200)>>)
BkNoMarkets == Bookmaker(<<>>)
BkDraw == Bookmaker(<<H2H(300, 200, 320), SpreadsMarket(190, 0, 190, 0),
                      TotalsMarket(150, 210, 170)>>)

\* The bookmaker of the end-to-end scenario: home 1.40, draw 4.20, away 7.00,
\* the favourite's spread at -2, the totals at 2.5 with the cheaper Over.
BkScenario == Bookmaker(<<H2H(140, 420, 700), SpreadsMarket(185, -200, 195, 200),
                          TotalsMarket(250, 180, 200)>>)

\* A favourite at the half point -1.5.
BkHalf == Bookmaker(<<H2H(140, 420, 700), SpreadsMarket(190, -150, 190, 150),
                      TotalsMarket(250, 180, 200)>>)

\* Level sides (the spread point 0) with a totals line between two
\* integers: 2.5 with the cheaper Over, 3.5 with the cheaper Under.
BkLevel25 == Bookmaker(<<H2H(240, 300, 260), SpreadsMarket(190, 0, 190, 0),
                         TotalsMarket(250, 180, 200)>>)
BkLevel35 == Bookmaker(<<H2H(240, 300, 260), SpreadsMarket(190, 0, 190, 0),
                         TotalsMarket(350, 200, 180)>>)

\* Malformed markets: an h2h outcome without a price; a spreads outcome and
\* an Over without a point.
BkBadH2H ==
    Bookmaker(<<Market("h2h", <<Outcome(HomeApi, 0, 0, {"name"}),
                                H2HOutcome(AwayApi, 300)>>)>>)
BkBadLines ==
    Bookmaker(<<H2H(140, 420, 700),
                Market("spreads", <<Outcome(HomeApi, 190, 0, {"name", "price"}),
                                    LineOutcome(AwayApi, 190, 100)>>),
                Market("totals", <<Outcome("Over", 180, 0, {"name", "price"}),
                                   LineOutcome("Under", 200, 250)>>)>>)

BookmakerPool ==
    {BkHome1, BkHome2, BkAway, BkEven, BkH2HOnly, BkNoH2H, BkNoMarkets, BkDraw,
     BkBadH2H, BkBadLines}

\* The events the aggregators are checked on.
AggEvents == {Event(bs) : bs \in SeqsUpTo(BookmakerPool, MaxBookmakers)}

\* The events the h2h aggregation is checked on: up to MaxPrices bookmakers,
\* each with one price of the home team, with a price of the draw and of
\* the away team, or with no market.
QuotePrices == {100, 200, 210, 10000}

BkQuote(p) == Bookmaker(<<Market("h2h", <<H2HOutcome(HomeApi, p)>>)>>)

BkDrawAway ==
    Bookmaker(<<Market("h2h", <<H2HOutcome("Draw", 300), H2HOutcome(AwayApi, 250)>>)>>)

QuotePool == {BkQuote(p) : p \in QuotePrices} \cup {BkDrawAway, BkNoMarkets}

QuoteEvents == {Event(bs) : bs \in SeqsUpTo(QuotePool, MaxPrices)}

\* The events of the games that tips are calculated for.
TipPool == {BkHome1, BkHome2, BkEven, BkNoH2H, BkDraw, BkScenario}
TipEvents == {Event(bs) : bs \in SeqsUpTo(TipPool, MaxBookmakers)}

\* The events the smart strategy is checked on.
SmartPool ==
    {BkHome1, BkHome2, BkAway, BkEven, BkDraw, BkScenario, BkHalf, BkLevel25,
     BkLevel35}
SmartEvents == {Event(bs) : bs \in SeqsUpTo(SmartPool, MaxBookmakers)}

\* The lists of legacy quotes a Game is constructed with.
QuoteLists ==
    {<<>>, <<150>>, <<150, 400>>, <<150, 400, 600>>, <<260, 340, 250>>,
     <<1200, 700, 110>>, <<150, 400, 600, 250>>}

Game(q, t, e, c) ==
    [home_team |-> "1899 Hoffenheim", away_team |-> "FC Augsburg",
     quotes |-> q, game_time |-> t, odds_event |-> e, odds_api_client |-> c]

\* The games the classic rule is checked on: every home and away quote of
\* FloatQuotes.
ClassicGames ==
    {Game(<<h, 300, a>>, "datetime", None, FALSE) : h, a \in FloatQuotes}

Games ==
    {Game(q, "datetime", e, c) :
        q \in QuoteLists, e \in {None, Some(Event(<<BkHome1>>))}, c \in BOOLEAN}
    \cup {Game(<<150, 400, 600>>, "datetime", Some(ev), TRUE) : ev \in TipEvents}
    \cup {Game(<<150, 400, 600>>, "None", Some(Event(<<BkHome1>>)), TRUE)}

NoGame == Game(<<>>, "datetime", None, FALSE)

(***************************************************************************)
(* The record of a calculate_tip call, and of an aggregation.              *)
(***************************************************************************)
TipCall(t, hq, aq, r, write, raised, before) ==
    [op |-> "calculate_tip", home_quote |-> hq, away_quote |-> aq,
     random_goal |-> r, write |-> write, raised |-> raised, result |-> t,
     before |-> before]

NoTipCall ==
    [op |-> "none", home_quote |-> None, away_quote |-> None,
     random_goal |-> 0, write |-> "ok", raised |-> FALSE, result |-> NoTip,
     before |-> LogAbsent]

Aggregates(event) ==
    [h2h |-> _aggregate_market_quotes(event, "h2h"),
     spread |-> _aggregate_spread(event),
     totals |-> _aggregate_totals(event)]

NoAgg == [cur |-> None, first |-> None]

\* The quotes that calculate_tip is called with: none, or two prices.
QuoteArgs == {<<None, None>>, <<Some(200), Some(600)>>}

\* The state of the part of the model that a specification leaves out.
NoClient ==
    /\ flag = FALSE
    /\ cache = None
    /\ cache_time = None
    /\ file = FileAbsent
    /\ now = 0
    /\ pc = "off"
    /\ loaded = FileAbsent
    /\ last = Idle

NoGameState ==
    /\ strategy = "classic"
    /\ used_odds_write = FALSE
    /\ game = NoGame
    /\ used_odds = LogAbsent
    /\ tip = [NoTipCall EXCEPT !.op = "off"]
    /\ agg = NoAgg

(***************************************************************************)
(* The actions.                                                            *)
(***************************************************************************)
\* OddsApiClient.__init__
Construct ==
    /\ pc = "new"
    /\ LET l == _load_cache(file)
       IN  /\ cache' = l.cache
           /\ cache_time' = l.cache_time
    /\ pc' = "ready"
    /\ loaded' = file
    /\ last' = Call("__init__", FALSE, NoFixture, NoFetch, None, None, NoMatch)
    /\ UNCHANGED <<flag, file, now>>
    /\ UNCHANGED gvars

\* OddsApiClient.fetch_odds(force_refresh)
FetchOdds(force_refresh, outcome, payload, save) ==
    /\ pc = "ready"
    /\ LET f == fetch_odds(force_refresh, outcome, payload, save)
       IN  /\ cache' = f.cache
           /\ cache_time' = f.cache_time
           /\ file' = f.file
           /\ last' = Call("fetch_odds", force_refresh, NoFixture, f,
                           cache, cache_time, NoMatch)
    /\ UNCHANGED <<flag, now, pc, loaded>>
    /\ UNCHANGED gvars

\* OddsApiClient.get_odds_for_match(home_team, away_team, match_time)
GetOddsForMatch(fx, outcome, payload, save) ==
    /\ pc = "ready"
    /\ LET f == fetch_odds(FALSE, outcome, payload, save)
           m == IF f.raised THEN [event |-> None, raised |-> TRUE]
                ELSE MatchIn(f.ret, fx.home_team, fx.away_team, fx.match_time)
       IN  /\ cache' = f.cache
           /\ cache_time' = f.cache_time
           /\ file' = f.file
           /\ last' = Call("get_odds_for_match", FALSE, fx, f,
                           cache, cache_time, m)
    /\ UNCHANGED <<flag, now, pc, loaded>>
    /\ UNCHANGED gvars

\* An hour passes between two calls.
Tick ==
    /\ now < MaxTime
    /\ now' = now + 1
    /\ last' = Idle
    /\ UNCHANGED <<flag, cache, cache_time, file, pc, loaded>>
    /\ UNCHANGED gvars

(***************************************************************************)
(* Spec: a client from its construction on.                                *)
(***************************************************************************)
Init ==
    /\ flag \in BOOLEAN
    /\ cache = None
    /\ cache_time = None
    /\ file \in InitFiles
    /\ now = 0
    /\ pc = "new"
    /\ loaded = FileAbsent
    /\ last = Idle
    /\ NoGameState

Next ==
    \/ Construct
    \/ \E force \in BOOLEAN, a \in Answers :
          FetchOdds(force, a.outcome, a.payload, a.save)
    \/ \E fx \in SpecFixtures, a \in Answers :
          GetOddsForMatch(fx, a.outcome, a.payload, a.save)
    \/ Tick

Spec == Init /\ [][Next]_vars

(***************************************************************************)
(* SpecMatch: a client that holds a snapshot fetched at hour 0, asked for  *)
(* fixtures.  The snapshot is any event list of MatchPayloads.             *)
(***************************************************************************)
InitMatch ==
    /\ flag \in BOOLEAN
    /\ cache \in {Some(p) : p \in MatchPayloads}
    /\ cache_time = Some(0)
    /\ file = FileJson(cache, "iso", 0)
    /\ now \in {0, CACHE_TTL}
    /\ pc = "ready"
    /\ loaded = FileAbsent
    /\ last = Idle
    /\ NoGameState

NextMatch ==
    \E fx \in Fixtures, a \in MatchAnswers :
       GetOddsForMatch(fx, a.outcome, a.payload, a.save)

SpecMatch == InitMatch /\ [][NextMatch]_vars

(***************************************************************************)
(* The actions on a Game.                                                  *)
(***************************************************************************)
\* Game.calculate_tip(home_quote, away_quote)
CalculateTip(home_quote, away_quote, random_goal, write) ==
    /\ tip.op # "off"
    /\ Len(used_odds.records) < MaxLog
    /\ write = "fail_read" => used_odds.kind # "absent"
    /\ write # "ok" => used_odds_write
    /\ \E t \in {calculate_tip(strategy, game, home_quote, away_quote, random_goal)} :
         \E p \in {IF t.raised \/ ~t.decision.some
                   THEN [raised |-> FALSE, file |-> used_odds]
                   ELSE _persist_used_odds(used_odds, game, t.decision.v, write)} :
            /\ used_odds' = p.file
            /\ tip' = TipCall(t, home_quote, away_quote, random_goal, write,
                              t.raised \/ p.raised, used_odds)
    /\ UNCHANGED <<strategy, used_odds_write, game, agg>>
    /\ UNCHANGED cvars

\* The three aggregators on the event of the game.
Aggregate ==
    /\ tip.op = "off"
    /\ game.odds_event.some
    /\ ~agg.cur.some
    /\ LET a == Aggregates(game.odds_event.v)
       IN  agg' = [cur |-> Some(a),
                   first |-> IF agg.first.some THEN agg.first ELSE Some(a)]
    /\ UNCHANGED <<strategy, used_odds_write, game, used_odds, tip>>
    /\ UNCHANGED cvars

\* The provider lists the bookmakers of the event in another order: the
\* i-th and its successor change places.
Reorder(i) ==
    /\ tip.op = "off"
    /\ game.odds_event.some
    /\ agg.cur.some
    /\ LET bs == game.odds_event.v.bookmakers
       IN  /\ i < Len(bs)
           /\ bs[i] # bs[i + 1]
           /\ game' = [game EXCEPT !.odds_event =
                         Some(Event([bs EXCEPT ![i] = bs[i + 1], ![i + 1] = bs[i]]))]
    /\ agg' = [agg EXCEPT !.cur = None]
    /\ UNCHANGED <<strategy, used_odds_write, used_odds, tip>>
    /\ UNCHANGED cvars

(***************************************************************************)
(* SpecAgg: the aggregators on an event, listed in any order.              *)
(***************************************************************************)
InitAgg ==
    /\ NoClient
    /\ strategy = "smart"
    /\ used_odds_write = FALSE
    /\ game \in {Game(<<150, 400, 600>>, "datetime", Some(ev), TRUE) : ev \in AggEvents}
    /\ used_odds = LogAbsent
    /\ tip = [NoTipCall EXCEPT !.op = "off"]
    /\ agg = NoAgg

NextAgg ==
    \/ Aggregate
    \/ \E i \in 1..MaxBookmakers : Reorder(i)

SpecAgg == InitAgg /\ [][NextAgg]_vars

\* The aggregators on the events of QuoteEvents.
InitQuotes ==
    /\ NoClient
    /\ strategy = "smart"
    /\ used_odds_write = FALSE
    /\ game \in {Game(<<150, 400, 600>>, "datetime", Some(ev), TRUE) : ev \in QuoteEvents}
    /\ used_odds = LogAbsent
    /\ tip = [NoTipCall EXCEPT !.op = "off"]
    /\ agg = NoAgg

SpecQuotes == InitQuotes /\ [][NextAgg]_vars

(***************************************************************************)
(* SpecTip: tips calculated for a game.                                    *)
(***************************************************************************)
InitTip ==
    /\ NoClient
    /\ strategy \in {"classic", "smart"}
    /\ used_odds_write \in BOOLEAN
    /\ game \in Games
    /\ used_odds \in InitLogs
    /\ tip = NoTipCall
    /\ agg = NoAgg

NextTip ==
    \E q \in QuoteArgs, r \in 0..1, w \in WriteOutcomes :
        CalculateTip(q[1], q[2], r, w)

SpecTip == InitTip /\ [][NextTip]_vars

\* calculate_tip with the smart strategy on the events of SmartEvents,
\* writing no log.
InitSmart ==
    /\ NoClient
    /\ strategy = "smart"
    /\ used_odds_write = FALSE
    /\ game \in {Game(<<150, 400, 600>>, "datetime", Some(ev), TRUE) : ev \in SmartEvents}
    /\ used_odds = LogAbsent
    /\ tip = NoTipCall
    /\ agg = NoAgg

SpecSmart == InitSmart /\ [][NextTip]_vars

\* calculate_tip with the classic strategy on the games of ClassicGames,
\* writing no log.
InitClassic ==
    /\ NoClient
    /\ strategy = "classic"
    /\ used_odds_write = FALSE
    /\ game \in ClassicGames
    /\ used_odds = LogAbsent
    /\ tip = NoTipCall
    /\ agg = NoAgg

SpecClassic == InitClassic /\ [][NextTip]_vars

(***************************************************************************)
(* The claims about the cache are stated on the record of the last call:   *)
(* last.pre and last.preTime are the snapshot and its timestamp before the *)
(* call, cache and cache_time those after it, and now is the hour of the   *)
(* call (Tick clears the record).                                          *)
(***************************************************************************)
Fetching == last.op = "fetch_odds"

\* The validity rule as the specification words it, at the hour of the call.
ValidBefore ==
    \/ flag /\ last.pre.some
    \/ last.pre.some /\ last.preTime.some /\ now - last.preTime.v < 6

ProviderFailed == last.net = 1 /\ last.outcome \in ProviderOutcomes \ {"ok"}

\* C1: with the always-trust-cache flag set and a snapshot held,
\* fetch_odds(force_refresh=True) makes no provider call and returns the
\* held snapshot; snapshot and timestamp are the same after the call as
\* before it, in every reachable state, hence after any sequence of calls.
C1_OverrideNoNetwork ==
    (Fetching /\ last.force /\ flag /\ last.pre.some) =>
        /\ last.net = 0
        /\ ~last.raised
        /\ last.ret = last.pre
        /\ cache = last.pre
        /\ cache_time = last.preTime

C1_Witness ==
    /\ Fetching /\ last.force /\ flag /\ last.pre.some
    /\ last.net = 0 /\ last.ret = last.pre

\* C2: when the cache is valid (the flag is set and a snapshot exists, or a
\* snapshot exists whose age is below 6 hours) and force_refresh is false,
\* fetch_odds returns the held snapshot and makes no provider call.  The
\* same holds of the fetch_odds() that get_odds_for_match makes.
C2_ValidCacheNoNetwork ==
    (last.op \in {"fetch_odds", "get_odds_for_match"} /\ ~last.force /\ ValidBefore) =>
        /\ last.net = 0
        /\ last.ret = last.pre
        /\ cache = last.pre
        /\ cache_time = last.preTime

\* A snapshot of age 5 hours, the flag not set, is served from the cache.
C2_Witness ==
    /\ Fetching /\ ~last.force /\ ~flag
    /\ last.pre.some /\ last.preTime.some /\ now - last.preTime.v = 5
    /\ last.net = 0 /\ last.ret = last.pre

\* C3: when a refresh is attempted and the provider fails (unreachable,
\* non-2xx, unparsable body), fetch_odds does not raise: it returns the
\* snapshot held before, None when there was none, and leaves the snapshot
\* and its timestamp as they were.
C3_ProviderFailureFallsBack ==
    (Fetching /\ ProviderFailed) =>
        /\ ~last.raised
        /\ last.ret = last.pre
        /\ cache = last.pre
        /\ cache_time = last.preTime

C3_Witness ==
    /\ Fetching /\ last.outcome = "bad_body" /\ last.net = 1
    /\ last.pre.some /\ last.ret = last.pre

\* C4: a client constructed on a malformed cache file holds no snapshot
\* afterwards, a later fetch_odds returns nothing taken from that file, and
\* a held snapshot always has a fetch timestamp.  (The payloads of the
\* model's cache files are none of its provider's.)
C4_MalformedFileIsNoSnapshot ==
    /\ (last.op = "__init__" /\ Malformed(loaded)) => ~cache.some
    /\ (Fetching /\ Malformed(loaded) /\ last.ret.some) =>
           last.ret.v \notin FilePayloads
    /\ cache.some => cache_time.some

\* C5: when the override does not apply and the cache is not valid or
\* force_refresh is true, fetch_odds asks the provider; when the provider
\* answers, the new payload replaces the snapshot, the timestamp is the hour
\* of the call, the payload is returned, and a successful write leaves
\* {payload, timestamp} in the file; a failed write changes none of the
\* first three.
C5_RefreshReplacesSnapshot ==
    /\ (Fetching /\ ~(flag /\ last.pre.some) /\ (last.force \/ ~ValidBefore)) =>
           last.net = 1
    /\ (Fetching /\ last.net = 1 /\ last.outcome = "ok") =>
           /\ ~last.raised
           /\ last.payload.some
           /\ last.ret = last.payload
           /\ cache = last.payload
           /\ cache_time = Some(now)
           /\ last.save = "ok" => file = FileJson(last.payload, "iso", now)

\* A refresh that replaces a held snapshot by another while the write fails.
C5_Witness ==
    /\ Fetching /\ last.net = 1 /\ last.outcome = "ok"
    /\ last.save = "fail_write"
    /\ last.pre.some /\ last.pre # cache /\ now > 0
    /\ cache = last.payload /\ cache_time = Some(now)

(***************************************************************************)
(* The claims about the matcher, stated on the snapshot that the call's    *)
(* fetch_odds() returned (last.ret) and on the event returned (last.event).*)
(***************************************************************************)
Matching == last.op = "get_odds_for_match"

Snapshot == IF last.ret.some THEN last.ret.v ELSE <<>>

\* The kickoff of an event, in hours UTC, when its commence_time is a UTC
\* (or offset) ISO time.
KickoffUtc(e) ==
    IF e.commence_time = Missing THEN None
    ELSE LET t == ParseIso(e.commence_time)
         IN  IF t.some /\ t.v.aware THEN Some(t.v.wall - t.v.off) ELSE None

\* The kickoff of the fixture on the same reference: a naive time is UTC.
FixtureKickoffUtc(fx) ==
    IF fx.match_time.aware THEN fx.match_time.wall - fx.match_time.off
    ELSE fx.match_time.wall

SameName(given, wanted) == given # Missing /\ Lower(given) = Lower(wanted)

\* The two conditions of the claim on the i-th event of the snapshot.
Satisfies(i, fx) ==
    LET e == Snapshot[i]
    IN  /\ SameName(e.home_team, Translate(fx.home_team))
        /\ SameName(e.away_team, Translate(fx.away_team))
        /\ KickoffUtc(e).some
        /\ Abs(KickoffUtc(e).v - FixtureKickoffUtc(fx)) < 6

\* C6: get_odds_for_match returns the first event, in payload order, whose
\* home and away names equal the translated fixture names whatever the case
\* and whose kickoff is less than 6 hours from the fixture's; it returns
\* None when there is no such event.
C6_FirstMatchingEvent ==
    Matching =>
        LET sat == {i \in 1..Len(Snapshot) : Satisfies(i, last.fixture)}
        IN  IF sat = {}
            THEN last.event = None
            ELSE \E i \in sat :
                    /\ \A j \in sat : i <= j
                    /\ last.event = Some(Snapshot[i])

\* The second event is returned: the first has the names and is 6 hours off.
C6_Witness ==
    /\ Matching /\ Len(Snapshot) = 2
    /\ Snapshot[1] = EvLate /\ last.fixture.match_time = Naive(12)
    /\ last.event = Some(Snapshot[2])

\* An event record is malformed: a key is missing or the time is no time.
MalformedEvent(e) ==
    \/ e.home_team = Missing
    \/ e.away_team = Missing
    \/ e.commence_time = Missing
    \/ ~ParseIso(e.commence_time).some

\* C7, as claimed: get_odds_for_match does not raise, and it returns None
\* when no event matches or when the snapshot holds a malformed record.
C7_NoneOnAnyMalformedRecord ==
    Matching =>
        /\ ~last.raised
        /\ (\E i \in 1..Len(Snapshot) : MalformedEvent(Snapshot[i])) =>
               last.event = None
        /\ (\A i \in 1..Len(Snapshot) : ~Satisfies(i, last.fixture)) =>
               last.event = None

\* C7, amended: get_odds_for_match does not raise on a malformed record; a
\* malformed record is skipped and never returned; the call returns None
\* when no well-formed event of the snapshot matches, and a well-formed
\* match is returned whatever malformed records the snapshot holds.
C7_MalformedRecordsAreSkipped ==
    Matching =>
        /\ ~last.raised
        /\ last.event.some =>
               /\ ~MalformedEvent(last.event.v)
               /\ \E i \in 1..Len(Snapshot) : Snapshot[i] = last.event.v
        /\ (\A i \in 1..Len(Snapshot) :
                MalformedEvent(Snapshot[i]) \/ ~Satisfies(i, last.fixture)) =>
               last.event = None
        /\ (\E i \in 1..Len(Snapshot) :
                ~MalformedEvent(Snapshot[i]) /\ Satisfies(i, last.fixture)) =>
               last.event.some

\* A match is returned from a snapshot whose first record is malformed.
C7_Witness ==
    /\ Matching /\ Len(Snapshot) = 2
    /\ MalformedEvent(Snapshot[1])
    /\ last.event = Some(Snapshot[2])


(***************************************************************************)
(* The claims about the aggregators are stated under SpecAgg: agg.first    *)
(* holds the aggregates of the event as it was first listed, agg.cur those *)
(* of the event as it is listed now, a permutation of the first listing.   *)
(***************************************************************************)
Aggregated == agg.cur.some /\ agg.first.some

\* C8: aggregation is invariant to the order of the bookmakers: the
\* head-to-head mapping, the spread result and the totals result of every
\* permutation of an event's bookmaker list are those of the event as it was
\* first listed, also when two candidate points tie on the number of votes
\* and on the average price gap.
C8_OrderInvariantAggregation ==
    Aggregated => agg.cur = agg.first

(***************************************************************************)
(* The claims about calculate_tip are stated under SpecTip, on the record  *)
(* of the last call.                                                       *)
(***************************************************************************)
Tipped == tip.op = "calculate_tip"

\* calculate_tip was called without quotes: the legacy quotes are read.
LegacyQuotes == ~tip.home_quote.some /\ ~tip.away_quote.some

\* C9: under the classic strategy, calculate_tip on a Game constructed with
\* a number of legacy quotes other than 3 raises ValueError to the caller:
\* it returns no score and raises no other exception.
C9_WrongLengthIsValueError ==
    (Tipped /\ strategy = "classic" /\ LegacyQuotes /\ Len(game.quotes) # 3) =>
        /\ tip.result.raised
        /\ tip.result.error = "ValueError"

\* The game has no matched event, or its event gives the head-to-head
\* aggregator nothing.
NoAggregatorOutput ==
    \/ ~game.odds_event.some
    \/ /\ game.odds_event.some
       /\ _aggregate_market_quotes(game.odds_event.v, "h2h") = Return(<<>>)

\* C10: with the smart strategy selected, calculate_tip on a game of three
\* legacy quotes that has no matched event, or whose event gives no
\* aggregator output, does not raise and returns the score of the classic
\* rule on the legacy quotes.
C10_SmartFallsBackToClassic ==
    (/\ Tipped /\ strategy = "smart" /\ NoAggregatorOutput
     /\ Len(game.quotes) = 3 /\ game.game_time = "datetime") =>
        /\ ~tip.raised
        /\ tip.result.score =
              ClassicTip(game, tip.home_quote, tip.away_quote, tip.random_goal).score


\* The last call took the smart branch and returned a score.
SmartScored == Tipped /\ tip.result.path = "smart" /\ ~tip.result.raised

\* C11: the goals of the smart strategy are non-negative and sum to
\* total_goals at least, for every tendency (home, away, draw), every
\* resolved spread and every total_goals.
C11_GoalsCoverTotal ==
    SmartScored =>
        /\ tip.result.score[1] >= 0
        /\ tip.result.score[2] >= 0
        /\ tip.result.score[1] + tip.result.score[2] >= tip.result.total_goals


\* The records of the log, as json.load reads them.
Loaded(f) == [i \in 1..Len(f.records) |-> json_load(f.records[i])]

\* Storage worked in the last call: the log was absent or an array, and no
\* operation on the file failed.
StorageWorked == tip.write = "ok" /\ tip.before.kind \in {"absent", "list"}

\* C12: with audit-log writing enabled and storage working, every
\* calculate_tip call that returns a score appends exactly one record to the
\* log, in the smart strategy and in every branch of the classic strategy,
\* the predicted draw included; with writing disabled the log stays as it
\* was.
C12_EveryScoreIsRecorded ==
    /\ (Tipped /\ used_odds_write /\ StorageWorked /\ ~tip.raised) =>
          /\ used_odds.kind = "list"
          /\ Len(used_odds.records) = Len(tip.before.records) + 1
    /\ (Tipped /\ ~used_odds_write) => used_odds = tip.before

IsPrefix(a, b) == Len(a) <= Len(b) /\ SubSeq(b, 1, Len(a)) = a

\* C13: the audit log is append-only: every record that the log held before
\* a call is in the log after it, unchanged and at its place, with at most
\* one record added at the end, whatever the log file held before.
C13_AppendOnly ==
    Tipped =>
        /\ IsPrefix(tip.before.records, used_odds.records)
        /\ Len(used_odds.records) <= Len(tip.before.records) + 1


\* C14: the aggregators of the head-to-head, the spread and the totals
\* market do not raise, whatever the outcomes of the event's markets lack
\* (a name, a price, a point): a malformed market counts as absent.
C14_AggregatorsNeverRaise ==
    agg.cur.some =>
        /\ ~agg.cur.v.h2h.raised
        /\ ~agg.cur.v.spread.raised
        /\ ~agg.cur.v.totals.raised


\* An operation on the log file failed in the last call, or the log it
\* found was corrupt or no array: the call came to the file operations of
\* _persist_used_odds (writing enabled, a decision to store, the record
\* built) and one of them did not work.
StorageFailed ==
    /\ Tipped /\ used_odds_write /\ game.game_time = "datetime"
    /\ ~tip.result.raised /\ tip.result.decision.some
    /\ (tip.write # "ok" \/ tip.before.kind \in {"garbage", "notlist"})

\* What the last call gave its caller: None when an exception left it.
Returned == IF tip.raised THEN None ELSE Some(tip.result.score)

\* C15: a failure of the audit log (an I/O error of the file, a log that is
\* corrupt or no array) does not leave calculate_tip: the call returns the
\* score that it returns with audit-log writing disabled, in both
\* strategies.
C15_LogFailureIsSwallowed ==
    StorageFailed =>
        Returned = Some(calculate_tip(strategy, game, tip.home_quote,
                                      tip.away_quote, tip.random_goal).score)

C15_Witness ==
    /\ StorageFailed /\ tip.result.path = "smart" /\ tip.write = "fail_write"
    /\ tip.before.kind = "garbage" /\ Returned = Some(<<1, 2>>)


\* The end-to-end scenario: the last call took the smart branch on an event
\* with the aggregated h2h prices 1.40 (home), 4.20 (draw) and 7.00 (away),
\* with the spread point -2 at the favourite's outcome of every bookmaker,
\* and with the totals point 2.5, the over price below the under price.
Scenario ==
    /\ SmartScored
    /\ DictGet(tip.result.h2h_quotes, game.home_team) = Some(140)
    /\ DictGet(tip.result.h2h_quotes, "Draw") = Some(420)
    /\ DictGet(tip.result.h2h_quotes, game.away_team) = Some(700)
    /\ LET fav == FavSpreads(game.odds_event.v, tip.result.h2h_quotes)
       IN  /\ Len(fav) = Len(game.odds_event.v.bookmakers)
           /\ \A i \in 1..Len(fav) : fav[i] = 0 - 200
    /\ tip.result.spread_info.some
    /\ tip.result.spread_info.v.point = 0 - 200
    /\ tip.result.totals_info.some
    /\ tip.result.totals_info.v.point = 250
    /\ tip.result.totals_info.v.price < tip.result.totals_info.v.under

\* C16: in the end-to-end scenario the smart strategy resolves the tendency
\* to the home team and total_goals to 3, and returns a score with 3 home
\* goals or more.
C16_ScenarioHomeWins ==
    Scenario =>
        /\ tip.result.tendenz = game.home_team
        /\ tip.result.total_goals = 3
        /\ tip.result.score[1] >= 3


\* The last call wrote its decision to the log.
Written ==
    /\ Tipped /\ ~tip.raised /\ used_odds_write /\ tip.write = "ok"
    /\ tip.result.decision.some

\* The record at the end of the log, read back.
LastRecord == json_load(used_odds.records[Len(used_odds.records)])

\* The price that an aggregated spread or totals market holds, if any.
PriceOf(info) == IF info.some THEN Some(info.v.price) ELSE None

\* C17: a decision written to the audit log and read back holds the score
\* that the call returned as its tip, and as used h2h, spread and totals
\* quotes the aggregated values of the calculation: the aggregated h2h
\* price of the home team, the draw and the away team, the aggregated
\* spread price and the aggregated over price (none of them in the classic
\* strategy).
C17_RecordRoundTrip ==
    Written =>
        /\ used_odds.kind = "list" /\ used_odds.records # <<>>
        /\ LastRecord.tip = tip.result.score
        /\ LastRecord.strategy = tip.result.path
        /\ tip.result.path = "classic" =>
              /\ LastRecord.used_h2h = None
              /\ LastRecord.used_spread = None
              /\ LastRecord.used_totals = None
        /\ tip.result.path = "smart" =>
              /\ LastRecord.used_h2h.some
              /\ \A k \in {game.home_team, "Draw", game.away_team} :
                    LastRecord.used_h2h.v[k] = DictGet(tip.result.h2h_quotes, k)
              /\ LastRecord.used_spread = PriceOf(tip.result.spread_info)
              /\ LastRecord.used_totals = PriceOf(tip.result.totals_info)

C17_Witness ==
    /\ Written /\ tip.result.path = "smart"
    /\ LastRecord.tip = <<1, 2>>
    /\ LastRecord.used_h2h.v[game.home_team] = Some(140)
    /\ LastRecord.used_spread = Some(185)
    /\ LastRecord.used_totals = Some(180)
    /\ Len(used_odds.records) = 2


\* The prices that the bookmakers of the event quote for the outcome k of
\* the h2h market (k a team of the game or "Draw"), in the order of the
\* payload.
Quoted(event, k) ==
    LET outs == MarketOutcomes(event, "h2h")
        api == IF k \in DOMAIN KICKTIPP_TO_API THEN KICKTIPP_TO_API[k] ELSE k
        idx == SelectSeq([i \in 1..Len(outs) |-> i], LAMBDA i : outs[i].name \in {k, api})
    IN  [j \in 1..Len(idx) |-> outs[idx[j]].price]

\* The i-th least of the prices p, repetitions counted.
Ranked(p, i) ==
    CHOOSE v \in {p[j] : j \in 1..Len(p)} :
        /\ Cardinality({j \in 1..Len(p) : p[j] < v}) < i
        /\ i <= Cardinality({j \in 1..Len(p) : p[j] <= v})

\* The median of the prices from the lo-th least to the hi-th least.
MedianOfRanks(p, lo, hi) ==
    IF (hi - lo) % 2 = 0 THEN Ranked(p, (lo + hi) \div 2)
    ELSE (Ranked(p, (lo + hi - 1) \div 2) + Ranked(p, (lo + hi + 1) \div 2)) \div 2

\* The median of the prices without one least and one greatest of them
\* when they are more than two, the median of them all otherwise.
TrimmedMedian(p) ==
    IF Len(p) > 2 THEN MedianOfRanks(p, 2, Len(p) - 1)
    ELSE MedianOfRanks(p, 1, Len(p))

OtherTeamPrice(all_outcomes, o) ==
    LET idx == SelectSeq([i \in 1..Len(all_outcomes) |-> i],
                         LAMBDA i : Norm(all_outcomes[i].name) # Norm(o.name))
    IN  IF idx = <<>> THEN None ELSE Some(all_outcomes[idx[1]].price)

\* The votes of a bookmaker: the point and the price of its favourite's
\* outcomes in its spreads markets, each with the price that the same
\* market quotes for the other team.
BookmakerVotes(b) ==
    LET fav_names == FavNames(FavName(b))
        ofMarket(m) ==
            LET idx == SelectSeq([i \in 1..Len(m.outcomes) |-> i],
                         LAMBDA i : \E v \in fav_names :
                                       Norm(m.outcomes[i].name) = Norm(v))
            IN  [j \in 1..Len(idx) |->
                   Entry(m.outcomes[idx[j]].point, m.outcomes[idx[j]].price,
                         OtherTeamPrice(m.outcomes, m.outcomes[idx[j]]))]
    IN  Concat([i \in 1..Len(b.markets) |->
                  IF b.markets[i].key = "spreads" THEN ofMarket(b.markets[i])
                  ELSE <<>>])

SpreadVotes(event) ==
    Concat([i \in 1..Len(event.bookmakers) |-> BookmakerVotes(event.bookmakers[i])])

\* The average gap of the point p is less than that of the point q, both
\* having one.
SmallerGap(votes, p, q) ==
    LET a == AvgDiff(votes, p)
        b == AvgDiff(votes, q)
    IN  a.n > 0 /\ b.n > 0 /\ a.sum * b.n < b.sum * a.n

\* C19: when several points of the favourite's spread have the most votes
\* of the bookmakers, the spread aggregation does not return a point whose
\* average gap between the favourite's price and the price of the other
\* team in the same market is greater than that of another of these
\* points: of two such points with distinct average gaps, it returns the
\* one of the smaller gap.
C19_SpreadTieBreakBySmallerGap ==
    (agg.cur.some /\ ~agg.cur.v.spread.raised /\ agg.cur.v.spread.v.some) =>
        LET votes == SpreadVotes(game.odds_event.v)
            candidates == Candidates(votes)
        IN  \A i, j \in 1..Len(candidates) :
               SmallerGap(votes, candidates[i], candidates[j]) =>
                  agg.cur.v.spread.v.v.point # candidates[j]


\* What the bookmakers supply to the totals aggregation: for every totals
\* market with an Over outcome that has a price and a point and an Under
\* outcome that has a price, the point with the over and the under price.
SuppliedTotals(event) ==
    LET ofMarket(m) ==
            LET over == LastNamed(m, "Over")
                under == LastNamed(m, "Under")
            IN  IF /\ over.some /\ under.some
                   /\ Has(over.v, "price") /\ Has(over.v, "point")
                   /\ Has(under.v, "price")
                THEN <<Entry(over.v.point, over.v.price, Some(under.v.price))>>
                ELSE <<>>
        ofBookmaker(b) ==
            Concat([i \in 1..Len(b.markets) |->
                      IF b.markets[i].key = "totals" THEN ofMarket(b.markets[i])
                      ELSE <<>>])
    IN  Concat([i \in 1..Len(event.bookmakers) |-> ofBookmaker(event.bookmakers[i])])

\* r is the median of the prices p, rounded to a cent.
IsMedian(r, p) ==
    IF Len(p) % 2 = 1 THEN r = Ranked(p, (Len(p) + 1) \div 2)
    ELSE 2 * r - (Ranked(p, Len(p) \div 2) + Ranked(p, Len(p) \div 2 + 1))
            \in {0 - 1, 0, 1}

\* C20: the totals aggregation returns None exactly when no bookmaker
\* supplies a totals market with an over price, an under price and a point;
\* otherwise it returns one point, which has the most votes and, among the
\* points of the most votes, a least average gap between the over and the
\* under price, with the medians of the over and of the under prices at
\* that point.
C20_TotalsConsensus ==
    agg.cur.some =>
        LET supplied == SuppliedTotals(game.odds_event.v)
            res == agg.cur.v.totals
        IN  /\ ~res.raised
            /\ res.v = None <=> supplied = <<>>
            /\ supplied # <<>> =>
                  /\ Count(supplied, res.v.v.point) = MaxCount(supplied)
                  /\ \A i \in 1..Len(supplied) :
                        Count(supplied, supplied[i].point) = MaxCount(supplied)
                           => ~SmallerGap(supplied, supplied[i].point, res.v.v.point)
                  /\ IsMedian(res.v.v.price, PricesAt(supplied, res.v.v.point))
                  /\ IsMedian(res.v.v.under, OthersAt(supplied, res.v.v.point))


\* The spread that the resolution rule gives for an aggregated spread and
\* the raw points of the favourite's spreads outcomes: 1 without an
\* aggregated spread; the ceiling of the magnitude of a non-integer point,
\* with the sign of the point; for an integer point its magnitude, one more
\* when the magnitude of the plain average of the raw points exceeds it,
\* with the sign of the point.
RuleSpread(spread_info, raw) ==
    IF ~spread_info.some THEN 1
    ELSE LET point == spread_info.v.point
             magnitude == Abs(point)
             signed(m) == IF point >= 0 THEN m ELSE 0 - m
         IN  IF magnitude % 100 # 0 THEN signed((magnitude + 99) \div 100)
             ELSE IF raw # <<>> /\ Abs(Sum(raw)) > magnitude * Len(raw)
             THEN signed(magnitude \div 100 + 1)
             ELSE signed(magnitude \div 100)

\* C21: the spread that the smart strategy resolves is the one of the
\* resolution rule, for every tendency, the draw included.
C21_SpreadResolution ==
    SmartScored =>
        tip.result.spread =
            RuleSpread(tip.result.spread_info,
                       FavSpreads(game.odds_event.v, tip.result.h2h_quotes))


\* The last call took the classic branch and returned a score.
ClassicScored == Tipped /\ tip.result.path = "classic" /\ ~tip.result.raised

\* The quotes of the last classic call: the arguments, or the first and the
\* third legacy quote of the game.
HomeQuote == IF tip.home_quote.some THEN tip.home_quote.v ELSE game.quotes[1]
AwayQuote == IF tip.away_quote.some THEN tip.away_quote.v ELSE game.quotes[3]

\* The integers nearest to n / dn: two of them when n / dn lies half-way.
Nearest(n, dn) ==
    {q \in {n \div dn, n \div dn + 1} : 2 * Abs(dn * q - n) <= dn}

\* The goals that the rule adds for the favoured side: |diff| * c rounded,
\* c = 0.3 if |diff| > 7 else 0.75, diff in cents.
FavouredGoals(diff) ==
    IF Abs(diff) > 700 THEN Nearest(3 * Abs(diff), 1000)
    ELSE Nearest(3 * Abs(diff), 400)

OddTotalAtLevel ==
    /\ SmartScored
    /\ tip.result.spread = 0
    /\ tip.result.totals_info.some
    /\ RoundedTotal(tip.result.totals_info) % 2 = 1

\* C23: with the resolved spread 0 and an odd total_goals after the rounding
\* by the over and under quotes, a totals line that is no integer leaves an
\* even total_goals after the nudge, and the two sides get the same number
\* of goals, which sum to total_goals; a totals line that is an odd integer
\* leaves total_goals odd.
C23_NudgeToEvenSplit ==
    OddTotalAtLevel =>
        /\ tip.result.totals_info.v.point % 100 # 0 =>
              /\ tip.result.total_goals % 2 = 0
              /\ tip.result.score[1] = tip.result.score[2]
              /\ tip.result.score[1] + tip.result.score[2] = tip.result.total_goals
        /\ tip.result.totals_info.v.point % 200 = 100 =>
              tip.result.total_goals % 2 = 1

C23_Witness ==
    /\ OddTotalAtLevel
    /\ tip.result.totals_info.v.point = 350
    /\ RoundedTotal(tip.result.totals_info) = 3
    /\ tip.result.total_goals = 4
    /\ tip.result.score = <<2, 2>>


\* C24: the side that the tendency of the smart strategy names is not
\* predicted to lose: for the tendency of the home team home_goals is
\* away_goals at least, for the tendency of the away team away_goals is
\* home_goals at least, whatever the aggregated spread point of the
\* favourite, a negative point such as -2 included.
C24_FavouriteDoesNotLose ==
    SmartScored =>
        /\ tip.result.tendenz = game.home_team =>
              tip.result.score[1] >= tip.result.score[2]
        /\ tip.result.tendenz = game.away_team =>
              tip.result.score[2] >= tip.result.score[1]

=============================================================================
